---- MODULE Spec2Model ----
(***************************************************************************)
(* The AI form-builder dialogue of Backend/app.py: the session store of    *)
(* Backend/session_manager.py driven by the init/answer request handlers,  *)
(* with the LLM call and the form save as the two points where a handler   *)
(* is suspended (await) and other handlers run.                            *)
(*                                                                         *)
(* A handler holds a REFERENCE to a FormSession object; the store maps a   *)
(* session id to such a reference.  Objects live in `heap`, references are *)
(* object numbers, so that a handler can keep mutating an object that the  *)
(* store no longer (or not yet again) points to, as in Python.             *)
(***************************************************************************)
EXTENDS Integers, Sequences, FiniteSets, TLC

\* ------------------------------------------------------------------ bounds
\* Number of HTTP requests issued in a behaviour.
MaxReq == 3
\* Number of fields of a form given to the validator on its own.
MaxFields == 2
\* Number of clock steps in a behaviour.
MaxTicks == 1
\* Number of fields of a form whose text is cut.
MaxTextFields == 2
\* Number of characters of a text given to the repair on its own.
MaxChars == 3

\* --------------------------------------------------------------- constants
\* timedelta(hours=24) of FormSession.expires_at.
SESSION_TTL_HOURS == 24
\* The clock advances in steps that carry a session past its expiry.
TickHours == SESSION_TTL_HOURS + 1

Requests == 1..MaxReq
Users == {"alice", "bob"}
NoUser == "nobody"
QuestionIds == {"q1", "bg_preference"}

\* Python's Optional: None is the empty set, a value x is {x}.
None == {}
Some(x) == {x}
IsNone(v) == v = {}
The(v) == CHOOSE x \in v : TRUE

\* The session ids requests name.  An id that create_session makes itself
\* (uuid4, when the request gives none) is an id no other session has.
SessionIds == {"sid1"}

\* SessionStage
INITIALIZED == "initialized"
QUESTION == "question"
FORM_SCHEMA == "form_schema"
COMPLETED == "completed"
SessionStage == {INITIALIZED, QUESTION, FORM_SCHEMA, COMPLETED}

\* ------------------------------------------------------------ JSON values
\* A key that a JSON object does not have.
Absent == "absent"

\* A question object: the value of each key (Absent when the key is missing);
\* options is "absent", "empty_list", "list" (a non-empty list) or "scalar".
QText == [id |-> "q1", label |-> "Name?", type |-> "text", options |-> "absent"]
QRadio == [id |-> "bg_preference", label |-> "Background?", type |-> "radio", options |-> "list"]
QEmpty == [id |-> Absent, label |-> Absent, type |-> Absent, options |-> "absent"]

\* bool(question) of a dict: it has at least one key.
QTruthy(q) == q.id /= Absent \/ q.label /= Absent \/ q.type /= Absent \/ q.options /= "absent"

\* A form field: isDict, and the value of each key.
FieldA == [isDict |-> TRUE, id |-> "a", type |-> "text", label |-> "A"]
FieldB == [isDict |-> TRUE, id |-> "b", type |-> "radio", label |-> "B"]

\* A form: isDict (a JSON object), title, and fields: fieldsKind is "absent",
\* "list" or "scalar" (a number), and fields the elements of the list.
FormT1 == [isDict |-> TRUE, title |-> "T1", fieldsKind |-> "list", fields |-> <<FieldA>>]
FormT2 == [isDict |-> TRUE, title |-> "T2", fieldsKind |-> "list", fields |-> <<FieldA, FieldB>>]
FormNoTitle == [isDict |-> TRUE, title |-> Absent, fieldsKind |-> "list", fields |-> <<FieldA>>]
\* What extract_form_schema rebuilds from the matched fields of a cut text.
FormExtracted == [isDict |-> TRUE, title |-> "Generated Form", fieldsKind |-> "list", fields |-> <<FieldA>>]

\* bool(form) of a dict: it has at least one key.
FTruthy(f) == ~f.isDict \/ f.title /= Absent \/ f.fieldsKind /= "absent"

\* A decoded document: shape "dict" or "other" (a list or a scalar), the value
\* of "mode" (Absent when missing), and the optional "question" and "form".
Doc(mode, question, form) == [shape |-> "dict", mode |-> mode, question |-> question, form |-> form]
DocNotDict == [shape |-> "other", mode |-> Absent, question |-> None, form |-> None]

\* A reply of the LLM, by how its text decodes:
\*   "json"     json.loads accepts the text (after the code fence is stripped);
\*   "repaired" json.loads rejects it and accepts repair_truncated_json's text;
\*   "fields"   both reject it, is_final_form holds and field objects match;
\*   "garbage"  both reject it and nothing is extracted.
Reply(name, text, doc) == [name |-> name, text |-> text, doc |-> doc]
LLMReplies ==
  { Reply("q_text", "json", Doc("question", Some(QText), None)),
    Reply("q_radio", "json", Doc("question", Some(QRadio), None)),
    Reply("cut_q_empty", "repaired", Doc("question", Some(QEmpty), None)),
    Reply("form_t1", "json", Doc("form_schema", None, Some(FormT1))),
    Reply("form_no_title", "json", Doc("form_schema", None, Some(FormNoTitle))),
    Reply("cut_fields", "fields", Doc("form_schema", None, Some(FormExtracted))),
    Reply("garbage", "garbage", Doc(Absent, None, None)) }

\* ------------------------------------------------------- llm_parser.py
\* A scan of the fields that looks for 'type' before 'id'.
RECURSIVE FirstBadFieldTypeFirst(_, _)
FirstBadFieldTypeFirst(fields, i) ==
  IF i > Len(fields) THEN <<>>
  ELSE LET fld == fields[i] IN
       IF ~fld.isDict THEN <<i - 1, "must be a dictionary">>
       ELSE IF fld.type = Absent THEN <<i - 1, "missing 'type'">>
       ELSE IF fld.id = Absent THEN <<i - 1, "missing 'id'">>
       ELSE IF fld.label = Absent THEN <<i - 1, "missing 'label'">>
       ELSE FirstBadFieldTypeFirst(fields, i + 1)

\* The index (from 0) of the first field the validator rejects with its
\* reason, scanning fields[i..]; <<>> when none is rejected.
RECURSIVE FirstBadField(_, _)
FirstBadField(fields, i) ==
  IF i > Len(fields) THEN <<>>
  ELSE LET fld == fields[i] IN
       IF ~fld.isDict THEN <<i - 1, "must be a dictionary">>
       ELSE IF fld.id = Absent THEN <<i - 1, "missing 'id'">>
       ELSE IF fld.type = Absent THEN <<i - 1, "missing 'type'">>
       ELSE IF fld.label = Absent THEN <<i - 1, "missing 'label'">>
       ELSE FirstBadField(fields, i + 1)

\* A validator that accepts every schema.
AcceptEverySchema(form_schema) == [ok |-> TRUE, error |-> <<>>]

\* A validator that only looks at the fields.
RequireFieldsOnly(form_schema) ==
  IF ~form_schema.isDict THEN [ok |-> FALSE, error |-> <<"Form schema must be a dictionary">>]
  ELSE IF form_schema.fieldsKind /= "list" THEN [ok |-> FALSE, error |-> <<"'fields' must be an array">>]
  ELSE [ok |-> TRUE, error |-> <<>>]

\* validate_form_schema: (is_valid, error_message), the message as a tuple.
validate_form_schema(form_schema) ==
  IF ~form_schema.isDict THEN [ok |-> FALSE, error |-> <<"Form schema must be a dictionary">>]
  ELSE IF form_schema.title = Absent THEN [ok |-> FALSE, error |-> <<"Form schema missing 'title' field">>]
  ELSE IF form_schema.fieldsKind = "absent" THEN [ok |-> FALSE, error |-> <<"Form schema missing 'fields' array">>]
  ELSE IF form_schema.fieldsKind /= "list" THEN [ok |-> FALSE, error |-> <<"'fields' must be an array">>]
  ELSE LET bad == FirstBadField(form_schema.fields, 1) IN
       IF bad /= <<>> THEN [ok |-> FALSE, error |-> <<"Field", bad[1], bad[2]>>]
       ELSE [ok |-> TRUE, error |-> <<>>]

\* The result of a call that may raise: raised is "none" or the exception's
\* class, doc the returned dict.
Returned(doc) == [raised |-> "none", doc |-> doc]
Raised(exc) == [raised |-> exc, doc |-> Doc(Absent, None, None)]
ErrorResult == Returned(Doc("error", None, None))

\* A first stage that returns the question without its options.
Stage1WithoutOptions(doc) ==
  Returned([doc EXCEPT !.question =
              IF IsNone(@) THEN @ ELSE Some([The(@) EXCEPT !.options = "absent"])])

\* The try block of parse_llm_response on a document json.loads accepted.
ParseStage1(doc) ==
  IF doc.shape /= "dict" THEN Raised("AttributeError")
  ELSE IF doc.mode = "question" THEN
    IF IsNone(doc.question) \/ ~QTruthy(The(doc.question)) THEN Raised("ValueError")
    ELSE LET q == The(doc.question) IN
         IF q.id = Absent \/ q.label = Absent \/ q.type = Absent THEN Raised("ValueError")
         ELSE IF q.type \in {"radio", "checkbox"} /\ q.options \in {"absent", "empty_list"}
              THEN Raised("ValueError")
         ELSE IF q.type \in {"radio", "checkbox"} /\ q.options /= "list"
              THEN Raised("ValueError")
         ELSE Returned(doc)
  ELSE IF doc.mode = "form_schema" THEN
    IF IsNone(doc.form) \/ ~FTruthy(The(doc.form)) THEN Raised("ValueError")
    ELSE Returned(doc)
  ELSE IF doc.mode = "questions" THEN Returned([doc EXCEPT !.mode = "question"])
  ELSE IF doc.mode = "final_form" THEN Returned([doc EXCEPT !.mode = "form_schema"])
  ELSE Returned(doc)

\* The handler of the first JSONDecodeError on a text the repair made
\* decodable: every branch returns the decoded document as it is; the log
\* line of a form_schema evaluates len(form.get('fields', [])) first.
ParseStage2(doc) ==
  IF doc.shape /= "dict" THEN Raised("AttributeError")
  ELSE IF doc.mode = "form_schema" /\ ~IsNone(doc.form) /\ FTruthy(The(doc.form)) THEN
    IF ~The(doc.form).isDict THEN Raised("AttributeError")
    ELSE IF The(doc.form).fieldsKind = "scalar" THEN Raised("TypeError")
    ELSE Returned(doc)
  ELSE Returned(doc)

\* The handler of the second JSONDecodeError: the extracted form, or error.
ParseStage3(reply) ==
  IF reply.text = "fields" /\ ~IsNone(reply.doc.form)
     /\ The(reply.doc.form).fieldsKind = "list" /\ Len(The(reply.doc.form).fields) > 0
  THEN Returned(Doc("form_schema", None, reply.doc.form))
  ELSE ErrorResult

parse_llm_response(reply) ==
  IF reply.text = "json" THEN ParseStage1(reply.doc)
  ELSE IF reply.text = "repaired" THEN ParseStage2(reply.doc)
  ELSE ParseStage3(reply)

\* QuestionData(**question) succeeds: id, label and type are given and
\* options is missing or a list.
QuestionDataOk(q) ==
  /\ q.id /= Absent /\ q.label /= Absent /\ q.type /= Absent
  /\ q.options \in {"absent", "empty_list", "list"}


\* --------------------------------------------------- session_manager.py
Answers == {<<"a", "b">>}
FormTypes == {"contact"}

\* FormSession(session_id, form_type, initial_prompt) at clock t; user_id is
\* the attribute the authenticated init handler adds (NoUser: not set).
FormSession(session_id, form_type, t) ==
  [ session_id |-> session_id,
    form_type |-> form_type,
    user_id |-> NoUser,
    conversation_history |-> <<>>,
    current_stage |-> INITIALIZED,
    current_question |-> None,
    question_count |-> 0,
    answers |-> [q \in QuestionIds |-> None],
    form_id |-> 0,
    final_form |-> None,
    created_at |-> t,
    updated_at |-> t,
    expires_at |-> t + SESSION_TTL_HOURS ]

VARIABLES
  sessions,   \* SessionManager.sessions: session id -> object (0: no entry)
  heap,       \* the live FormSession objects, by object number
  req,        \* the request handlers, by request number
  last,       \* the response sent last
  saves,      \* the calls of save_ai_generated_form, in order, each with
              \* the form id it returned (0: none yet)
  nforms,     \* the number of forms the database holds
  now,        \* datetime.utcnow(), in hours
  arg,        \* the argument of a parser function called on its own
  ret         \* what that call returned (NotCalled before the call)

vars == <<sessions, heap, req, last, saves, nforms, now, arg, ret>>

\* A touch that also renews the expiry.
TouchExtendingExpiry(s) == [s EXCEPT !.updated_at = now, !.expires_at = now + SESSION_TTL_HOURS]

\* FormSession.update_timestamp
update_timestamp(s) == [s EXCEPT !.updated_at = now]

\* FormSession.is_expired
is_expired(s) == now > s.expires_at

\* A message put in front of the history.
PrependMessage(s, role, content) ==
  [s EXCEPT !.conversation_history = <<[role |-> role, content |-> content]>> \o @,
            !.updated_at = now]

\* A session that records every message as the user's.
AddMessageAsUser(s, role, content) ==
  [s EXCEPT !.conversation_history = Append(@, [role |-> "user", content |-> content]),
            !.updated_at = now]

\* FormSession.add_message
add_message(s, role, content) ==
  update_timestamp([s EXCEPT !.conversation_history =
                       Append(@, [role |-> role, content |-> content])])

\* SessionManager.get_session: the object returned (0: None).
get_session(session_id) ==
  IF sessions[session_id] = 0 THEN 0
  ELSE IF is_expired(heap[sessions[session_id]]) THEN 0
  ELSE sessions[session_id]

\* A lookup that leaves the store as it is.
StoreKept(session_id) == sessions

\* SessionManager.get_session: the store it leaves (an expired entry is deleted).
StoreAfterGet(session_id) ==
  IF sessions[session_id] = 0 THEN sessions
  ELSE IF is_expired(heap[sessions[session_id]]) THEN [sessions EXCEPT ![session_id] = 0]
  ELSE sessions

\* SessionManager.update_session: the store with the object put under its id.
StoreAfterUpdate(o, s) == [sessions EXCEPT ![s.session_id] = o]

\* SessionManager.delete_session
StoreAfterDelete(session_id) == [sessions EXCEPT ![session_id] = 0]

\* len of a store.
CountOf(st) == Cardinality({id \in SessionIds : st[id] /= 0})

\* SessionManager.get_session_count
get_session_count == CountOf(sessions)

\* ---------------------------------------------------------------- app.py
\* A handler: pc is "idle" (not yet issued), "llm" (awaiting call_llm),
\* "saving" (awaiting save_ai_generated_form) or "done" (response sent), and
\* its locals: the session object it holds, the question id of the request,
\* the form it is saving, the session as it was when the request arrived, and
\* whether every earlier request had been responded to when it arrived.
IdleReq ==
  [ pc |-> "idle", kind |-> "none", auth |-> FALSE, user |-> NoUser,
    question_id |-> None, obj |-> 0, form |-> None, before |-> None,
    sequential |-> FALSE ]
DoneReq == [IdleReq EXCEPT !.pc = "done"]

\* A response: the request it answers and its endpoint ("init", "answer"),
\* the HTTP status, and mode, form_id and question_number of the body; of a
\* refused answer also the session id and the user of the request, and
\* whether get_session found the session expired.
NoResponse ==
  [ r |-> 0, endpoint |-> "none", session_id |-> "", user |-> NoUser,
    status |-> 0, mode |-> "", form_id |-> 0, question_number |-> 0,
    llm_failed |-> FALSE, expired |-> FALSE ]
Response(r, endpoint, status, mode, form_id, question_number) ==
  [ NoResponse EXCEPT !.r = r, !.endpoint = endpoint, !.status = status, !.mode = mode,
                      !.form_id = form_id, !.question_number = question_number ]
RefusedAnswer(r, u, id, status) ==
  [ Response(r, "answer", status, "", 0, 0) EXCEPT
      !.session_id = id, !.user = u,
      !.expired = (sessions[id] /= 0 /\ get_session(id) = 0) ]

\* No handler is suspended: every request issued so far was responded to.
NoneInFlight == \A r \in Requests : req[r].pc \in {"idle", "done"}

\* Requests are numbered in the order they arrive.
Arrives(r) == req[r].pc = "idle" /\ (IF r = 1 THEN TRUE ELSE req[r - 1].pc /= "idle")

\* Python frees an object that neither the store nor a handler refers to.
Referenced(st, rq) ==
  {st[id] : id \in SessionIds} \cup {rq[r].obj : r \in Requests}
Collect(h, st, rq) ==
  [o \in DOMAIN h \cap Referenced(st, rq) |-> h[o]]

\* The HTTP status of an exception that leaves the handler's try block:
\* init maps ValueError (pydantic's ValidationError is one) to 400.
StatusOfException(kind, exc) == IF kind = "init" /\ exc = "ValueError" THEN 400 ELSE 500

Failed(kind, s, exc) ==
  [ s |-> s, put |-> FALSE, next |-> "done", status |-> StatusOfException(kind, exc),
    mode |-> "", form |-> None, question_number |-> 0 ]

\* A handler that leaves question_count as it is.
QuestionCountKept(kind, s) == s.question_count

\* question_count after a question is applied.
NextQuestionCount(kind, s) == IF kind = "init" THEN 1 ELSE s.question_count + 1

\* A handler that marks the session completed.
StageCompleted == COMPLETED

\* The stage a handler gives a session whose form it stored.
StageAfterForm == FORM_SCHEMA

\* A handler that stores the form and leaves the stage as it is.
FinalFormOnly(s, form) == [s EXCEPT !.final_form = Some(form)]

\* A handler that clears the question as it stores the form.
FinalFormClearingQuestion(s, form) ==
  [s EXCEPT !.final_form = Some(form), !.current_stage = FORM_SCHEMA,
            !.current_question = None]

\* The session with the form stored: final_form and current_stage.
WithFinalForm(s, form) == [s EXCEPT !.final_form = Some(form), !.current_stage = StageAfterForm]

\* A handler that starts the answers afresh with every question.
QuestionClearingAnswers(kind, s, q) ==
  [s EXCEPT !.current_question = Some(q),
            !.question_count = NextQuestionCount(kind, s),
            !.current_stage = QUESTION,
            !.answers = [id \in QuestionIds |-> None]]

\* The session with a question applied.
WithQuestion(kind, s, q) ==
  [s EXCEPT !.current_question = Some(q),
            !.question_count = NextQuestionCount(kind, s),
            !.current_stage = QUESTION]

\* `if not session.form_id`: the form has to be saved.
MustSave(s) == s.form_id = 0

\* The branch on parsed["mode"] of a handler, on the session s after the
\* messages were added: the session it leaves, whether update_session ran,
\* where the handler goes next and what it responds.
ApplyParsed(kind, auth, s, p) ==
  IF p.raised /= "none" THEN Failed(kind, s, p.raised)
  ELSE IF p.doc.mode = Absent THEN Failed(kind, s, "KeyError")
  ELSE IF p.doc.mode = "question" THEN
    IF IsNone(p.doc.question) THEN Failed(kind, s, "KeyError")
    ELSE LET q == The(p.doc.question)
             s2 == update_timestamp(WithQuestion(kind, s, q))
         IN IF QuestionDataOk(q)
            THEN [ s |-> s2, put |-> TRUE, next |-> "done", status |-> 200,
                   mode |-> "question", form |-> None,
                   question_number |-> s2.question_count ]
            ELSE [Failed(kind, s2, "ValueError") EXCEPT !.put = TRUE]
  ELSE IF p.doc.mode = "form_schema" THEN
    IF IsNone(p.doc.form) THEN Failed(kind, s, "KeyError")
    ELSE LET form == The(p.doc.form) IN
         IF ~validate_form_schema(form).ok
         THEN [ s |-> s, put |-> FALSE, next |-> "done", status |-> 200,
                mode |-> "error", form |-> None, question_number |-> 0 ]
         ELSE IF auth /\ MustSave(s)
         THEN [ s |-> s, put |-> FALSE, next |-> "saving", status |-> 0,
                mode |-> "", form |-> Some(form), question_number |-> 0 ]
         ELSE [ s |-> update_timestamp(WithFinalForm(s, form)), put |-> TRUE,
                next |-> "done", status |-> 200, mode |-> "form_schema",
                form |-> None, question_number |-> 0 ]
  ELSE IF p.doc.mode = "error" /\ kind = "init" /\ ~auth
  THEN [ s |-> s, put |-> FALSE, next |-> "done", status |-> 200,
         mode |-> "error", form |-> None, question_number |-> 0 ]
  ELSE Failed(kind, s, "HTTPException")

\* The user's turn that submit_answer adds to the history.
AnswerText(question_id, answer) == <<"Answer to", question_id, answer>>

\* The answers with the request's answer stored.
StoreAnswer(answers, question_id, answer) == [answers EXCEPT ![question_id] = Some(answer)]

\* The session fields a failed turn is to leave as they were.
Snapshot(s) ==
  [ answers |-> s.answers, conversation_history |-> s.conversation_history,
    question_count |-> s.question_count, current_question |-> s.current_question,
    current_stage |-> s.current_stage ]

\* The application after start-up: no session, no request.
Started ==
  /\ sessions = [id \in SessionIds |-> 0]
  /\ heap = [o \in {} |-> 0]
  /\ req = [r \in Requests |-> IdleReq]
  /\ last = NoResponse
  /\ saves = <<>>
  /\ nforms = 0
  /\ now = 0

\* A call of a parser function on its own: before, and with what it returned.
NotCalled == [called |-> FALSE, val |-> <<>>]
Called(val) == [called |-> TRUE, val |-> val]

Init ==
  /\ Started
  /\ arg = NotCalled
  /\ ret = NotCalled

\* The step of a handler r that leaves the store st, the objects h and the
\* handler rq, and responds resp (NoResponse while it is suspended).
HandlerStep(r, st, h, rq, resp) ==
  LET reqs == [req EXCEPT ![r] = rq] IN
  /\ sessions' = st
  /\ req' = reqs
  /\ heap' = Collect(h, st, reqs)
  /\ last' = IF resp.r = 0 THEN last ELSE resp
  /\ UNCHANGED <<arg, ret>>

\* init_form_creation up to `await call_llm`: an invalid form type, or a
\* blank form without a prompt, raises HTTPException(400) before any session
\* is made; the handler's `except Exception` turns it into its own status.
InitRefused(r) ==
  /\ Arrives(r)
  /\ HandlerStep(r, sessions, heap, DoneReq,
                 Response(r, "init", StatusOfException("init", "HTTPException"), "", 0, 0))
  /\ UNCHANGED <<saves, nforms, now>>

\* init_form_creation up to `await call_llm`: create_session with the id of
\* the request, which replaces the store's entry.  The object made by
\* request r is object r.
InitStart(r, auth, u, id, form_type) ==
  /\ Arrives(r)
  /\ LET s == [FormSession(id, form_type, now) EXCEPT !.user_id = u]
     IN HandlerStep(r, [sessions EXCEPT ![id] = r], (r :> s) @@ heap,
                    [IdleReq EXCEPT !.pc = "llm", !.kind = "init", !.auth = auth,
                                    !.user = u, !.obj = r,
                                    !.sequential = NoneInFlight],
                    NoResponse)
  /\ UNCHANGED <<saves, nforms, now>>

\* A handler from the branch on parsed["mode"] on: it awaits the save, or
\* responds.
AfterParse(r, o, out) ==
  /\ HandlerStep(r,
       IF out.put THEN StoreAfterUpdate(o, out.s) ELSE sessions,
       [heap EXCEPT ![o] = out.s],
       IF out.next = "saving" THEN [req[r] EXCEPT !.pc = "saving", !.form = out.form]
       ELSE DoneReq,
       IF out.next = "saving" THEN NoResponse
       ELSE Response(r, req[r].kind, out.status, out.mode,
                     IF out.mode = "form_schema" /\ req[r].auth THEN out.s.form_id ELSE 0,
                     out.question_number))
  /\ saves' = IF out.next = "saving"
              THEN Append(saves, [r |-> r, kind |-> req[r].kind, obj |-> o,
                                  session_id |-> out.s.session_id,
                                  owner_id |-> req[r].user,
                                  sequential |-> req[r].sequential,
                                  form_id |-> 0])
              ELSE saves
  /\ UNCHANGED <<nforms, now>>

\* init_form_creation from the return of call_llm on.
InitLLMReturn(r, reply) ==
  /\ req[r].pc = "llm" /\ req[r].kind = "init"
  /\ LET o == req[r].obj
         s1 == add_message(add_message(add_message(heap[o],
                   "system", <<"SYSTEM_PROMPT">>),
                   "user", <<"initial_prompt", heap[o].form_type>>),
                   "assistant", <<"llm_response">>)
     IN AfterParse(r, o, ApplyParsed("init", req[r].auth, s1, parse_llm_response(reply)))

\* A handler that reports every refusal as a missing session.
RefusalAlwaysNotFound(o, auth, u) == 404

\* The status of the HTTPException submit_answer raises before it stores the
\* answer, for the object o that get_session returned.
RefusalStatus(o, auth, u) ==
  IF o = 0 THEN 404
  ELSE IF auth /\ heap[o].user_id /= u THEN 403
  ELSE 400

\* submit_answer of a request that is refused: no session (404, an expired
\* one is evicted), another user's session (403), not in question stage (400).
AnswerRefused(r, auth, u, id) ==
  /\ Arrives(r)
  /\ LET o == get_session(id)
     IN /\ IF o = 0 THEN TRUE
           ELSE IF auth /\ heap[o].user_id /= u THEN TRUE
           ELSE heap[o].current_stage /= QUESTION
        /\ HandlerStep(r, StoreAfterGet(id), heap, DoneReq,
                       RefusedAnswer(r, u, id, RefusalStatus(o, auth, u)))
  /\ UNCHANGED <<saves, nforms, now>>

\* submit_answer up to `await call_llm`: the answer is stored in the session.
AnswerStart(r, auth, u, id, question_id, answer) ==
  /\ Arrives(r)
  /\ LET o == get_session(id) IN
     /\ o /= 0
     /\ IF auth THEN heap[o].user_id = u ELSE TRUE
     /\ heap[o].current_stage = QUESTION
     /\ HandlerStep(r, sessions,
          [heap EXCEPT ![o].answers = StoreAnswer(@, question_id, answer)],
          [IdleReq EXCEPT !.pc = "llm", !.kind = "answer", !.auth = auth, !.user = u,
                          !.question_id = Some(question_id), !.obj = o,
                          !.before = Some(Snapshot(heap[o])),
                          !.sequential = NoneInFlight],
          NoResponse)
  /\ UNCHANGED <<saves, nforms, now>>

\* submit_answer from the return of call_llm on.
AnswerLLMReturn(r, reply) ==
  /\ req[r].pc = "llm" /\ req[r].kind = "answer"
  /\ LET o == req[r].obj
         qid == The(req[r].question_id)
         s1 == add_message(add_message(heap[o],
                   "user", AnswerText(qid, The(heap[o].answers[qid]))),
                   "assistant", <<"llm_response">>)
     IN AfterParse(r, o, ApplyParsed("answer", req[r].auth, s1, parse_llm_response(reply)))

\* call_llm raises (HTTPException 500), or the handler is cancelled there.
LLMFail(r) ==
  /\ req[r].pc = "llm"
  /\ HandlerStep(r, sessions, heap, DoneReq,
                 [Response(r, req[r].kind, 500, "", 0, 0) EXCEPT !.llm_failed = TRUE])
  /\ UNCHANGED <<saves, nforms, now>>

\* save_ai_generated_form returns the new form's id; the handler stores it,
\* the form and the stage, and responds.
SaveReturn(r) ==
  /\ req[r].pc = "saving"
  /\ LET o == req[r].obj
         form_id == nforms + 1
         s == update_timestamp(WithFinalForm([heap[o] EXCEPT !.form_id = form_id],
                                             The(req[r].form)))
     IN HandlerStep(r, StoreAfterUpdate(o, s), [heap EXCEPT ![o] = s], DoneReq,
                    Response(r, req[r].kind, 200, "form_schema", form_id, 0))
  /\ nforms' = nforms + 1
  /\ saves' = [i \in DOMAIN saves |->
                IF saves[i].r = r THEN [saves[i] EXCEPT !.form_id = nforms + 1]
                ELSE saves[i]]
  /\ UNCHANGED now

\* save_ai_generated_form raises (the database is down).
SaveFail(r) ==
  /\ req[r].pc = "saving"
  /\ HandlerStep(r, sessions, heap, DoneReq, Response(r, req[r].kind, 500, "", 0, 0))
  /\ UNCHANGED <<saves, nforms, now>>

\* get_session_state on an expired session: get_session evicts it.
GetSessionState(id) ==
  /\ sessions[id] /= 0 /\ get_session(id) = 0
  /\ sessions' = StoreAfterGet(id)
  /\ heap' = Collect(heap, StoreAfterGet(id), req)
  /\ UNCHANGED <<req, last, saves, nforms, now, arg, ret>>

\* reset_session: delete_session of a stored session.
ResetSession(id) ==
  /\ sessions[id] /= 0
  /\ sessions' = StoreAfterDelete(id)
  /\ heap' = Collect(heap, StoreAfterDelete(id), req)
  /\ UNCHANGED <<req, last, saves, nforms, now, arg, ret>>

\* Time passes.
Tick ==
  /\ now + TickHours <= MaxTicks * TickHours
  /\ now' = now + TickHours
  /\ UNCHANGED <<sessions, heap, req, last, saves, nforms, arg, ret>>

Next ==
  \/ \E r \in Requests : InitRefused(r)
  \/ \E r \in Requests, u \in Users, id \in SessionIds, ft \in FormTypes :
        InitStart(r, TRUE, u, id, ft)
  \/ \E r \in Requests, id \in SessionIds, ft \in FormTypes :
        InitStart(r, FALSE, NoUser, id, ft)
  \/ \E r \in Requests, reply \in LLMReplies : InitLLMReturn(r, reply)
  \/ \E r \in Requests, u \in Users, id \in SessionIds : AnswerRefused(r, TRUE, u, id)
  \/ \E r \in Requests, id \in SessionIds : AnswerRefused(r, FALSE, NoUser, id)
  \/ \E r \in Requests, u \in Users, id \in SessionIds, q \in QuestionIds, a \in Answers :
        AnswerStart(r, TRUE, u, id, q, a)
  \/ \E r \in Requests, id \in SessionIds, q \in QuestionIds, a \in Answers :
        AnswerStart(r, FALSE, NoUser, id, q, a)
  \/ \E r \in Requests, reply \in LLMReplies : AnswerLLMReturn(r, reply)
  \/ \E r \in Requests : LLMFail(r)
  \/ \E r \in Requests : SaveReturn(r)
  \/ \E r \in Requests : SaveFail(r)
  \/ \E id \in SessionIds : GetSessionState(id)
  \/ \E id \in SessionIds : ResetSession(id)
  \/ Tick

Spec == Init /\ [][Next]_vars

\* ------------------------------------------------------ texts of the LLM
\* A text is a sequence of tokens: a punctuation character, a complete
\* string literal "v", or a string literal left open (the text ends after
\* its content v, before the closing quote).  Strings hold no quote, brace,
\* bracket or comma.  A text given to the repair on its own may also hold
\* quote characters by themselves and blanks.
Punct(c) == [k |-> "p", v |-> c]
Str(v) == [k |-> "s", v |-> v]
OpenStr(v) == [k |-> "open", v |-> v]
EndOfText == [k |-> "end", v |-> ""]
LBrace == Punct("{")
RBrace == Punct("}")
LBracket == Punct("[")
RBracket == Punct("]")
Comma == Punct(",")
Colon == Punct(":")
Quote == Punct("\"")
Space == Punct(" ")

\* The string v cut short: a proper prefix of v, which is none of the
\* strings the parser looks for.
CutShort(v) == v \o "~"

\* The token at position i of a text.
Tok(t, i) == IF i \in 1..Len(t) THEN t[i] ELSE EndOfText

\* str.count of a punctuation character.
CountChar(t, c) == Cardinality({i \in 1..Len(t) : t[i] = Punct(c)})

\* The first n tokens of a text.
Take(t, n) == SubSeq(t, 1, n)

\* n copies of a token.
Repeat(tok, n) == [i \in 1..n |-> tok]

\* str.rstrip
RECURSIVE Rstrip(_)
Rstrip(t) == IF Len(t) > 0 /\ t[Len(t)] = Space THEN Rstrip(Take(t, Len(t) - 1)) ELSE t

\* str.count('"') % 2 != 0: a complete string literal has two quotes.
OddQuotes(t) == Cardinality({i \in 1..Len(t) : t[i].k = "open" \/ t[i] = Quote}) % 2 /= 0

\* A quote character ends at position i.
QuoteAt(t, i) == Tok(t, i).k = "s" \/ Tok(t, i) = Quote

\* rfind('",'), counted in tokens: the last position of a quote that a comma
\* follows (0: none).
LastQuoteComma(t) ==
  LET hits == {i \in 1..(Len(t) - 1) : QuoteAt(t, i) /\ t[i + 1] = Comma}
  IN IF hits = {} THEN 0 ELSE CHOOSE i \in hits : \A j \in hits : j <= i

\* last_complete > 0: the quote was found, and not as the first character.
FoundAfterStart(t, i) == i > 0 /\ ~(i = 1 /\ t[1] = Quote)

\* repaired += '"'
CloseString(t) ==
  IF \E i \in 1..Len(t) : t[i].k = "open"
  THEN [i \in 1..Len(t) |-> IF t[i].k = "open" THEN Str(t[i].v) ELSE t[i]]
  ELSE Append(t, Quote)

\* A repair that closes the braces before the brackets.
RepairBracesFirst(json_str) ==
  LET stripped == Rstrip(json_str)
      noComma == IF Tok(stripped, Len(stripped)) = Comma
                 THEN Take(stripped, Len(stripped) - 1) ELSE stripped
      last_complete == LastQuoteComma(noComma)
      closed == IF ~OddQuotes(noComma) THEN noComma
                ELSE IF FoundAfterStart(noComma, last_complete)
                THEN Take(noComma, last_complete + 1)
                ELSE CloseString(noComma)
      missing_brackets == CountChar(json_str, "]") - CountChar(json_str, "[")
      missing_braces == CountChar(json_str, "}") - CountChar(json_str, "{")
  IN IF missing_brackets = 0 /\ missing_braces = 0 THEN json_str
     ELSE closed \o Repeat(RBrace, IF missing_braces < 0 THEN -missing_braces ELSE 0)
                 \o Repeat(RBracket, IF missing_brackets < 0 THEN -missing_brackets ELSE 0)

\* repair_truncated_json
repair_truncated_json(json_str) ==
  LET open_braces == CountChar(json_str, "{")
      close_braces == CountChar(json_str, "}")
      open_brackets == CountChar(json_str, "[")
      close_brackets == CountChar(json_str, "]")
      stripped == Rstrip(json_str)
      noComma == IF Tok(stripped, Len(stripped)) = Comma
                 THEN Take(stripped, Len(stripped) - 1) ELSE stripped
      last_complete == LastQuoteComma(noComma)
      closed == IF ~OddQuotes(noComma) THEN noComma
                ELSE IF FoundAfterStart(noComma, last_complete)
                THEN Take(noComma, last_complete + 1)
                ELSE CloseString(noComma)
      missing_brackets == close_brackets - open_brackets
      missing_braces == close_braces - open_braces
  IN IF open_braces = close_braces /\ open_brackets = close_brackets THEN json_str
     ELSE closed \o Repeat(RBracket, IF missing_brackets < 0 THEN -missing_brackets ELSE 0)
                 \o Repeat(RBrace, IF missing_braces < 0 THEN -missing_braces ELSE 0)

\* A decoded JSON value: a string, an object (its members in order, each a
\* key and a value) or an array (its elements).
JStr(v) == [t |-> "str", s |-> v, c |-> <<>>]
JObj(members) == [t |-> "obj", s |-> "", c |-> members]
JArr(elements) == [t |-> "arr", s |-> "", c |-> elements]
Member(key, val) == [key |-> key, val |-> val]

\* The outcome of decoding from a position: the value and the position after it.
Decoded(val, next) == [ok |-> TRUE, val |-> val, next |-> next]
DecodeError == [ok |-> FALSE, val |-> JStr(""), next |-> 0]

\* json's decoder on the tokens of a text from position i.
RECURSIVE DecodeValue(_, _)
RECURSIVE DecodeMembers(_, _, _)
RECURSIVE DecodeElements(_, _, _)
DecodeValue(t, i) ==
  IF Tok(t, i).k = "s" THEN Decoded(JStr(Tok(t, i).v), i + 1)
  ELSE IF Tok(t, i) = LBrace THEN
    IF Tok(t, i + 1) = RBrace THEN Decoded(JObj(<<>>), i + 2)
    ELSE DecodeMembers(t, i + 1, <<>>)
  ELSE IF Tok(t, i) = LBracket THEN
    IF Tok(t, i + 1) = RBracket THEN Decoded(JArr(<<>>), i + 2)
    ELSE DecodeElements(t, i + 1, <<>>)
  ELSE DecodeError
DecodeMembers(t, i, acc) ==
  IF Tok(t, i).k /= "s" \/ Tok(t, i + 1) /= Colon THEN DecodeError
  ELSE LET r == DecodeValue(t, i + 2) IN
       IF ~r.ok THEN DecodeError
       ELSE LET members == Append(acc, Member(Tok(t, i).v, r.val)) IN
            IF Tok(t, r.next) = Comma THEN DecodeMembers(t, r.next + 1, members)
            ELSE IF Tok(t, r.next) = RBrace THEN Decoded(JObj(members), r.next + 1)
            ELSE DecodeError
DecodeElements(t, i, acc) ==
  LET r == DecodeValue(t, i) IN
  IF ~r.ok THEN DecodeError
  ELSE IF Tok(t, r.next) = Comma THEN DecodeElements(t, r.next + 1, Append(acc, r.val))
  ELSE IF Tok(t, r.next) = RBracket THEN Decoded(JArr(Append(acc, r.val)), r.next + 1)
  ELSE DecodeError

\* json.loads: the value of the whole text, or JSONDecodeError (ok FALSE).
json_loads(t) ==
  LET r == DecodeValue(t, 1) IN
  IF r.ok /\ r.next = Len(t) + 1 THEN r ELSE DecodeError

\* dict.get: the value of a key of an object (of its last member of that
\* key), None when the key is missing.
Lookup(members, key) ==
  LET hits == {i \in 1..Len(members) : members[i].key = key}
  IN IF hits = {} THEN None
     ELSE Some(members[CHOOSE i \in hits : \A j \in hits : j <= i].val)

\* The value of a key as the documents of the model hold it: the string, or
\* Absent when the key is missing.
KeyValue(members, key) ==
  LET v == Lookup(members, key)
  IN IF IsNone(v) THEN Absent ELSE IF The(v).t = "str" THEN The(v).s ELSE "other"

\* How a list-valued key reads: "absent", "empty_list", "list" or "scalar"
\* (not a list).
ListKind(members, key) ==
  LET v == Lookup(members, key)
  IN IF IsNone(v) THEN "absent"
     ELSE IF The(v).t /= "arr" THEN "scalar"
     ELSE IF Len(The(v).c) = 0 THEN "empty_list" ELSE "list"

\* A decoded value read as a question, a form field, a form and a document.
ToQuestion(v) ==
  IF v.t /= "obj" THEN QEmpty
  ELSE [id |-> KeyValue(v.c, "id"), label |-> KeyValue(v.c, "label"),
        type |-> KeyValue(v.c, "type"), options |-> ListKind(v.c, "options")]
ToField(v) ==
  IF v.t /= "obj" THEN [isDict |-> FALSE, id |-> Absent, type |-> Absent, label |-> Absent]
  ELSE [isDict |-> TRUE, id |-> KeyValue(v.c, "id"), type |-> KeyValue(v.c, "type"),
        label |-> KeyValue(v.c, "label")]
ToForm(v) ==
  IF v.t /= "obj" THEN [isDict |-> FALSE, title |-> Absent, fieldsKind |-> "absent", fields |-> <<>>]
  ELSE LET kind == ListKind(v.c, "fields") IN
       [isDict |-> TRUE, title |-> KeyValue(v.c, "title"),
        fieldsKind |-> IF kind = "empty_list" THEN "list" ELSE kind,
        fields |-> IF kind = "list"
                   THEN [i \in 1..Len(The(Lookup(v.c, "fields")).c) |->
                           ToField(The(Lookup(v.c, "fields")).c[i])]
                   ELSE <<>>]
ToDoc(v) ==
  IF v.t /= "obj" THEN DocNotDict
  ELSE Doc(KeyValue(v.c, "mode"),
           IF IsNone(Lookup(v.c, "question")) THEN None
           ELSE Some(ToQuestion(The(Lookup(v.c, "question")))),
           IF IsNone(Lookup(v.c, "form")) THEN None
           ELSE Some(ToForm(The(Lookup(v.c, "form")))))

\* '"v"' in response_text: the text holds the string literal "v".
HasLiteral(t, v) == \E i \in 1..Len(t) : t[i] = Str(v)

\* phrase in response_text.lower(), for a phrase without quotes: a string of
\* the text is the phrase.
HasPhrase(t, phrase) == \E i \in 1..Len(t) : t[i].k \in {"s", "open"} /\ t[i].v = phrase

\* is_final_form
is_final_form(response_text) ==
  LET form_score ==
        Cardinality({v \in {"fields", "field_type", "form_title"} : HasLiteral(response_text, v)})
          + Cardinality({ph \in {"form specification", "complete form", "final form"} :
                           HasPhrase(response_text, ph)})
      question_score ==
        Cardinality({ph \in {"?", "clarifying question", "need to know",
                             "please specify", "would you like"} :
                       HasPhrase(response_text, ph)})
  IN IF HasLiteral(response_text, "mode") /\ HasLiteral(response_text, "final_form") THEN TRUE
     ELSE IF HasLiteral(response_text, "mode") /\ HasLiteral(response_text, "questions") THEN FALSE
     ELSE form_score > question_score + 2

\* A string literal with some content: "([^"]+)".
IsFilled(tok) == tok.k = "s" /\ tok.v /= ""

\* The first position from i on that holds the token (0: none).
FirstAt(t, i, tok) ==
  LET hits == {j \in i..Len(t) : t[j] = tok}
  IN IF hits = {} THEN 0 ELSE CHOOSE j \in hits : \A h \in hits : j <= h

\* field_pattern matches at position i: {"id":"..","type":"..","label":".."
\* and then anything up to the next closing brace.
FieldMatchAt(t, i) ==
  /\ Tok(t, i) = LBrace
  /\ Tok(t, i + 1) = Str("id") /\ Tok(t, i + 2) = Colon /\ IsFilled(Tok(t, i + 3))
  /\ Tok(t, i + 4) = Comma
  /\ Tok(t, i + 5) = Str("type") /\ Tok(t, i + 6) = Colon /\ IsFilled(Tok(t, i + 7))
  /\ Tok(t, i + 8) = Comma
  /\ Tok(t, i + 9) = Str("label") /\ Tok(t, i + 10) = Colon /\ IsFilled(Tok(t, i + 11))
  /\ FirstAt(t, i + 12, RBrace) > 0

\* re.finditer(field_pattern, ..): the fields of the matches from position i
\* on, in order, each match starting after the one before it.
RECURSIVE MatchedFields(_, _)
MatchedFields(t, i) ==
  IF i > Len(t) THEN <<>>
  ELSE IF FieldMatchAt(t, i)
  THEN <<[isDict |-> TRUE, id |-> t[i + 3].v, type |-> t[i + 7].v, label |-> t[i + 11].v]>>
         \o MatchedFields(t, FirstAt(t, i + 12, RBrace) + 1)
  ELSE MatchedFields(t, i + 1)

\* The leftmost match of "form"\s*:\s*({.*?})\s*} : the positions of the
\* group's braces, first 0 when there is no match.
FormMatch(t) ==
  LET ends(i) == {j \in (i + 3)..(Len(t) - 1) : t[j] = RBrace /\ t[j + 1] = RBrace}
      starts == {i \in 1..Len(t) :
                   /\ t[i] = Str("form") /\ Tok(t, i + 1) = Colon /\ Tok(t, i + 2) = LBrace
                   /\ ends(i) /= {}}
  IN IF starts = {} THEN [first |-> 0, last |-> 0]
     ELSE LET i == CHOOSE a \in starts : \A b \in starts : a <= b
          IN [first |-> i + 2, last |-> CHOOSE j \in ends(i) : \A h \in ends(i) : j <= h]

\* The title the title pattern finds, or the default one.
MatchedTitle(t) ==
  LET hits == {i \in 1..Len(t) :
                 t[i] = Str("title") /\ Tok(t, i + 1) = Colon /\ IsFilled(Tok(t, i + 2))}
  IN IF hits = {} THEN "Generated Form"
     ELSE t[(CHOOSE i \in hits : \A j \in hits : i <= j) + 2].v

\* extract_form_schema: the form object the first pattern finds, when it
\* decodes; else the form of the whole text, when it decodes; else the form
\* rebuilt from the matched fields; else the form without fields.
extract_form_schema(response_text) ==
  LET m == FormMatch(response_text)
      form_json == SubSeq(response_text, m.first, m.last) \o <<RBrace>>
      parsed == json_loads(response_text)
      fields == MatchedFields(response_text, 1)
  IN IF m.first > 0 /\ json_loads(form_json).ok THEN ToForm(json_loads(form_json).val)
     ELSE IF parsed.ok /\ parsed.val.t = "obj" /\ ~IsNone(Lookup(parsed.val.c, "form"))
     THEN ToForm(The(Lookup(parsed.val.c, "form")))
     ELSE IF parsed.ok /\ parsed.val.t = "obj" /\ ~IsNone(Lookup(parsed.val.c, "title"))
             /\ ~IsNone(Lookup(parsed.val.c, "fields"))
     THEN ToForm(parsed.val)
     ELSE IF Len(fields) > 0
     THEN [isDict |-> TRUE, title |-> MatchedTitle(response_text),
           fieldsKind |-> "list", fields |-> fields]
     ELSE [isDict |-> TRUE, title |-> "Generated Form", fieldsKind |-> "list", fields |-> <<>>]

\* How a text decodes: the reply parse_llm_response takes.
Classify(response_text) ==
  IF json_loads(response_text).ok
  THEN Reply("text", "json", ToDoc(json_loads(response_text).val))
  ELSE IF json_loads(repair_truncated_json(response_text)).ok
  THEN Reply("text", "repaired", ToDoc(json_loads(repair_truncated_json(response_text)).val))
  ELSE IF is_final_form(response_text)
  THEN Reply("text", "fields", Doc("form_schema", None, Some(extract_form_schema(response_text))))
  ELSE Reply("text", "garbage", Doc(Absent, None, None))

\* ------------------------------------------- validate_form_schema alone
\* The values a field and a form can have, key by key.
FieldInputs ==
  [isDict : BOOLEAN, id : {Absent, "a"}, type : {Absent, "text"}, label : {Absent, "A"}]
FieldLists == UNION {[1..n -> FieldInputs] : n \in 0..MaxFields}
FormInputs ==
  [isDict : BOOLEAN, title : {Absent, "T1"}, fieldsKind : {"absent", "list", "scalar"},
   fields : FieldLists]

InitValidate == Started /\ arg \in FormInputs /\ ret = NotCalled

\* validate_form_schema(arg): it reads its argument and returns.
CallValidate ==
  /\ ~ret.called
  /\ ret' = Called(validate_form_schema(arg))
  /\ UNCHANGED <<sessions, heap, req, last, saves, nforms, now, arg>>

NextValidate == CallValidate

SpecValidate == InitValidate /\ [][NextValidate]_vars

\* --------------------------------------------- parse_llm_response alone
\* The documents a text can decode to: any mode, with or without a question
\* (each key present or missing) and a form.
QuestionInputs ==
  [id : {Absent, "q1"}, label : {Absent, "Name?"}, type : {Absent, "text", "radio"},
   options : {"absent", "empty_list", "list", "scalar"}]
FormEmpty == [isDict |-> TRUE, title |-> Absent, fieldsKind |-> "absent", fields |-> <<>>]
FormScalarFields == [isDict |-> TRUE, title |-> "T1", fieldsKind |-> "scalar", fields |-> <<>>]
ModeInputs == {Absent, "question", "questions", "form_schema", "final_form", "error", "other"}
DocInputs ==
  {DocNotDict} \cup
  { Doc(mode, question, form) :
      mode \in ModeInputs,
      question \in {None} \cup {Some(q) : q \in QuestionInputs},
      form \in {None, Some(FormT1), Some(FormNoTitle), Some(FormEmpty), Some(FormScalarFields)} }

\* The texts: one that decodes, or decodes after repair, to each document;
\* one from which fields are extracted; one from which nothing is.
ReplyInputs ==
  {Reply("decodes", "json", doc) : doc \in DocInputs}
    \cup {Reply("decodes_repaired", "repaired", doc) : doc \in DocInputs}
    \cup {Reply("cut_fields", "fields", Doc("form_schema", None, Some(FormExtracted))),
          Reply("garbage", "garbage", Doc(Absent, None, None))}

InitParse == Started /\ arg \in ReplyInputs /\ ret = NotCalled

\* parse_llm_response(arg)
CallParse ==
  /\ ~ret.called
  /\ ret' = Called(parse_llm_response(arg))
  /\ UNCHANGED <<sessions, heap, req, last, saves, nforms, now, arg>>

NextParse == CallParse

SpecParse == InitParse /\ [][NextParse]_vars

\* --------------------------------------- parse_llm_response on cut texts
\* The text of a form field, of a list of fields, and of a whole reply
\* {"mode":..,"form":{"title":..,"fields":[..]}}.
FieldText(f) ==
  <<LBrace, Str("id"), Colon, Str(f.id), Comma, Str("type"), Colon, Str(f.type), Comma,
    Str("label"), Colon, Str(f.label), RBrace>>
RECURSIVE FieldsText(_)
FieldsText(fields) ==
  IF Len(fields) = 0 THEN <<>>
  ELSE IF Len(fields) = 1 THEN FieldText(fields[1])
  ELSE FieldText(fields[1]) \o <<Comma>> \o FieldsText(Tail(fields))
FormText(mode, form) ==
  <<LBrace, Str("mode"), Colon, Str(mode), Comma, Str("form"), Colon,
    LBrace, Str("title"), Colon, Str(form.title), Comma, Str("fields"), Colon, LBracket>>
    \o FieldsText(form.fields) \o <<RBracket, RBrace, RBrace>>

\* The text cut after n tokens (cut "none"), or inside the string that
\* follows them: in its content ("mid") or before its closing quote ("end").
Truncated(text, n, cut) ==
  Take(text, n) \o
    (IF cut = "none" THEN <<>>
     ELSE <<OpenStr(IF cut = "mid" THEN CutShort(text[n + 1].v) ELSE text[n + 1].v)>>)

\* The well-formed forms, under the current and the legacy mode name, and
\* every cut of their texts.
TextForms ==
  {[isDict |-> TRUE, title |-> "T", fieldsKind |-> "list", fields |-> fields] :
     fields \in UNION {[1..n -> {FieldA, FieldB}] : n \in 0..MaxTextFields}}
\* The ways to cut a text after n tokens.
CutsAt(text, n) ==
  {"none"} \cup (IF Tok(text, n + 1).k = "s" THEN {"mid", "end"} ELSE {})
CutsOf(mode, form) ==
  UNION {{[mode |-> mode, form |-> form, n |-> n, cut |-> cut] :
            cut \in CutsAt(FormText(mode, form), n)} :
           n \in 0..Len(FormText(mode, form))}
TruncateInputs ==
  UNION {CutsOf(mode, form) : mode \in {"form_schema", "final_form"}, form \in TextForms}

\* The cut text of an input.
TextOf(a) == Truncated(FormText(a.mode, a.form), a.n, a.cut)

InitTruncate == Started /\ arg \in TruncateInputs /\ ret = NotCalled

\* parse_llm_response(TextOf(arg))
CallTruncate ==
  /\ ~ret.called
  /\ ret' = Called(parse_llm_response(Classify(TextOf(arg))))
  /\ UNCHANGED <<sessions, heap, req, last, saves, nforms, now, arg>>

NextTruncate == CallTruncate

SpecTruncate == InitTruncate /\ [][NextTruncate]_vars

\* --------------------------------------------- repair_truncated_json alone
\* The texts: every cut of the well-formed texts, and every text of up to
\* MaxChars characters.
Characters == {LBrace, RBrace, LBracket, RBracket, Comma, Quote, Space, Str("a")}
RepairInputs ==
  {TextOf(a) : a \in TruncateInputs} \cup UNION {[1..n -> Characters] : n \in 0..MaxChars}

InitRepair == Started /\ arg \in RepairInputs /\ ret = NotCalled

\* repair_truncated_json(arg)
CallRepair ==
  /\ ~ret.called
  /\ ret' = Called(repair_truncated_json(arg))
  /\ UNCHANGED <<sessions, heap, req, last, saves, nforms, now, arg>>

NextRepair == CallRepair

SpecRepair == InitRepair /\ [][NextRepair]_vars

\* ------------------------------------------------------------ properties
\* The sessions the store holds, and the objects that live through a step.
Stored == {sessions[id] : id \in SessionIds} \ {0}
Surviving == DOMAIN heap \cap DOMAIN heap'

\* C1 (as claimed): over requests handled one after another that name the
\* same session id, once a save for that id has returned a form id no later
\* request calls save_ai_generated_form for that id again.
C1_SaveOncePerSessionId ==
  \A i, j \in DOMAIN saves :
    (/\ i < j
     /\ saves[i].session_id = saves[j].session_id
     /\ saves[i].sequential /\ saves[j].sequential
     /\ saves[i].form_id /= 0) => FALSE

\* C2 (as claimed): of two submit_answer handlers in flight on the same
\* session at most one calls save_ai_generated_form.
C2_OneConcurrentSave ==
  \A r1, r2 \in Requests :
    (/\ req[r1].pc = "saving" /\ req[r2].pc = "saving"
     /\ req[r1].kind = "answer" /\ req[r2].kind = "answer"
     /\ req[r1].obj = req[r2].obj) => r1 = r2

\* The changes of stage the spec's state machine draws.
ClaimedEdges ==
  { <<INITIALIZED, QUESTION>>, <<QUESTION, QUESTION>>, <<QUESTION, FORM_SCHEMA>>,
    <<FORM_SCHEMA, COMPLETED>> }

\* The changes of stage the handlers make.
CodeEdges ==
  { <<INITIALIZED, QUESTION>>, <<INITIALIZED, FORM_SCHEMA>>, <<QUESTION, QUESTION>>,
    <<QUESTION, FORM_SCHEMA>>, <<FORM_SCHEMA, QUESTION>>, <<FORM_SCHEMA, FORM_SCHEMA>> }

\* The stage of session o before and after a step, when the step changed it.
StageChanged(o) == heap'[o].current_stage /= heap[o].current_stage
StageEdge(o) == <<heap[o].current_stage, heap'[o].current_stage>>

SaveReturns(r) == req[r].pc = "saving" /\ req'[r].pc = "done" /\ nforms' = nforms + 1

AnswerIsRefused(r) ==
  /\ req[r].pc = "idle" /\ req'[r].pc = "done"
  /\ last'.r = r /\ last'.endpoint = "answer"

\* The owner check of submit_answer passes (the endpoint without login has none).
OwnerCheckPasses(o, u) == u = NoUser \/ heap[o].user_id = u

\* C5: a submit_answer naming a session (not expired, the user's own) whose
\* stage is not question is refused with 400, and the refusal changes no
\* session, calls neither the LLM nor the save, and leaves the store as it
\* is; an answer handler reaches the LLM call only from stage question.
C5_WrongStageRefused ==
  [][\A r \in Requests :
       /\ AnswerIsRefused(r) =>
            LET o == get_session(last'.session_id) IN
            /\ last'.status \in {400, 403, 404}
            /\ last'.status = 404 <=> o = 0
            /\ (IF o = 0 THEN FALSE
                ELSE OwnerCheckPasses(o, last'.user) /\ heap[o].current_stage /= QUESTION)
                 <=> last'.status = 400
            /\ last'.status = 400 => (heap' = heap /\ sessions' = sessions)
            /\ \A p \in Surviving : heap'[p] = heap[p]
            /\ saves' = saves /\ nforms' = nforms
       /\ (req[r].pc = "idle" /\ req'[r].pc = "llm" /\ req'[r].kind = "answer") =>
            heap[req'[r].obj].current_stage = QUESTION]_vars

\* C5 (witness): an answer to a session that holds its form was refused with
\* 400, and the session is still stored with the form.
C5_Witness ==
  /\ last.endpoint = "answer" /\ last.status = 400
  /\ \E o \in Stored : /\ heap[o].current_stage = FORM_SCHEMA
                       /\ heap[o].session_id = last.session_id

\* C6 (as claimed): when the LLM call of a submit_answer that ran alone fails,
\* the session has the answers, history, question count, question and stage
\* it had when the request arrived.
C6_FailedTurnLeavesSession ==
  [][\A r \in Requests :
       (/\ req[r].pc = "llm" /\ req[r].kind = "answer" /\ req'[r].pc = "done"
        /\ last'.r = r /\ last'.llm_failed
        /\ \A r2 \in Requests \ {r} : req[r2].pc \in {"idle", "done"})
       => Snapshot(heap[req[r].obj]) = The(req[r].before)]_vars

\* C7 (as claimed): a stored session holds a final form exactly when its
\* stage is form_schema or completed.
C7_FinalFormIffSchemaReady ==
  \A o \in Stored :
    heap[o].final_form /= None <=> heap[o].current_stage \in {FORM_SCHEMA, COMPLETED}

C9_CountedWhileAwaiting ==
  \A o \in Stored : heap[o].current_stage = QUESTION => heap[o].question_count >= 1

\* C9 (witness): a stored session is in stage question with its second
\* question, counted 2.
C9_Witness ==
  \E o \in Stored :
    /\ heap[o].current_stage = QUESTION
    /\ heap[o].question_count = 2
    /\ heap[o].final_form = None

\* C10 (as claimed): once a session holds a final form no step changes it.
C10_FinalFormImmutable ==
  [][\A o \in Surviving :
       heap[o].final_form /= None => heap'[o].final_form = heap[o].final_form]_vars

\* The Schema Validator's rules: a mapping with a title, a list of fields,
\* every field a mapping with id, type and label.
ValidSchema(f) ==
  /\ f.isDict /\ f.title /= Absent /\ f.fieldsKind = "list"
  /\ \A i \in 1..Len(f.fields) :
       LET fld == f.fields[i] IN
       fld.isDict /\ fld.id /= Absent /\ fld.type /= Absent /\ fld.label /= Absent

\* C11: the final form of every session, stored or held by a handler, passes
\* the Schema Validator, whichever parser stage produced it.
C11_FinalFormValid ==
  \A o \in DOMAIN heap :
    heap[o].final_form /= None => ValidSchema(The(heap[o].final_form))

\* C11 (witness): a stored session holds the form that the regex extraction
\* rebuilt, and another request was told that its form failed validation.
C11_Witness ==
  /\ \E o \in Stored : /\ heap[o].final_form = Some(FormExtracted)
                       /\ heap[o].current_stage = FORM_SCHEMA
  /\ last.mode = "error"

\* The result of the LLM call is a form_schema whose form fails validation.
InvalidFormResult(p) ==
  /\ p.raised = "none" /\ p.doc.mode = "form_schema" /\ ~IsNone(p.doc.form)
  /\ ~ValidSchema(The(p.doc.form))

\* C12: a handler whose LLM reply parses to a form_schema that fails the
\* Schema Validator responds with mode error (status 200) and does not
\* save; a step that responds with mode error leaves the saves and the
\* session's stage, final_form and form_id as they were.
C12_InvalidFormIsError ==
  [][\A r \in Requests :
       /\ req[r].pc = "llm" =>
            \A reply \in LLMReplies :
              LET o == req[r].obj
                  out == ApplyParsed(req[r].kind, req[r].auth, heap[o],
                                     parse_llm_response(reply))
              IN InvalidFormResult(parse_llm_response(reply)) =>
                   /\ out.mode = "error" /\ out.status = 200
                   /\ out.next = "done" /\ ~out.put
                   /\ out.s = heap[o]
       /\ (req[r].pc = "llm" /\ last'.r = r /\ last'.mode = "error") =>
            LET o == req[r].obj IN
            /\ req'[r].pc = "done"
            /\ saves' = saves /\ nforms' = nforms /\ sessions' = sessions
            /\ o \in DOMAIN heap' =>
                 /\ heap'[o].current_stage = heap[o].current_stage
                 /\ heap'[o].final_form = heap[o].final_form
                 /\ heap'[o].form_id = heap[o].form_id]_vars

\* C12 (witness): an answer was responded to with mode error, and its
\* session is still stored in stage question without form and form id.
C12_Witness ==
  /\ last.endpoint = "answer" /\ last.mode = "error" /\ last.status = 200
  /\ \E o \in Stored : /\ heap[o].current_stage = QUESTION
                       /\ heap[o].final_form = None /\ heap[o].form_id = 0
                       /\ Len(heap[o].conversation_history) = 5

\* C13: get_session of an id whose stored session is expired returns None
\* and leaves a store without the entry, counted one less; an expired
\* session stays expired; and the refusal of an answer that found its
\* session expired is a 404 that removed the entry.
C13_ExpiredUnreachable ==
  [][/\ \A id \in SessionIds :
          (IF sessions[id] = 0 THEN FALSE ELSE is_expired(heap[sessions[id]])) =>
            /\ get_session(id) = 0
            /\ StoreAfterGet(id)[id] = 0
            /\ CountOf(StoreAfterGet(id)) = get_session_count - 1
     /\ \A o \in Surviving : is_expired(heap[o]) => heap'[o].expires_at < now'
     /\ \A r \in Requests :
          (AnswerIsRefused(r) /\ last'.expired) =>
            /\ last'.status = 404
            /\ sessions[last'.session_id] /= 0
            /\ sessions'[last'.session_id] = 0
            /\ CountOf(sessions') = get_session_count - 1]_vars

\* C13 (witness): an answer found its session expired and was refused, and
\* the store no longer holds the session.
C13_Witness ==
  /\ last.expired /\ last.status = 404
  /\ sessions[last.session_id] = 0 /\ get_session_count = 0
  /\ now > SESSION_TTL_HOURS

\* C14: expires_at of a session is created_at + 24h and no step changes it
\* or created_at; updated_at never moves back.
C14_ExpiryFixed ==
  [][/\ \A o \in DOMAIN heap' : heap'[o].expires_at = heap'[o].created_at + SESSION_TTL_HOURS
     /\ \A o \in Surviving :
          /\ heap'[o].expires_at = heap[o].expires_at
          /\ heap'[o].created_at = heap[o].created_at
          /\ heap'[o].updated_at >= heap[o].updated_at]_vars

\* C14 (witness): a stored session was updated after its creation, past its
\* expiry, and expires when it did at creation.
C14_Witness ==
  \E o \in Stored :
    /\ heap[o].updated_at > heap[o].expires_at
    /\ heap[o].expires_at = heap[o].created_at + SESSION_TTL_HOURS
    /\ heap[o].current_stage = QUESTION

\* s is a prefix of t.
IsPrefix(s, t) == Len(s) <= Len(t) /\ \A i \in 1..Len(s) : s[i] = t[i]

\* C15: every step leaves the conversation history of every session as a
\* prefix of its new history.
C15_HistoryAppendOnly ==
  [][\A o \in Surviving :
       IsPrefix(heap[o].conversation_history, heap'[o].conversation_history)]_vars

\* C15 (witness): a stored session has the three messages of its init and
\* the two messages of each of two answers.
C15_Witness ==
  \E o \in Stored : Len(heap[o].conversation_history) = 7

\* The rules of the Schema Validator on a form and on a field, in the order
\* they are checked, each with the reason it reports.
FormRules(f) ==
  << <<~f.isDict, <<"Form schema must be a dictionary">>>>,
     <<f.title = Absent, <<"Form schema missing 'title' field">>>>,
     <<f.fieldsKind = "absent", <<"Form schema missing 'fields' array">>>>,
     <<f.fieldsKind /= "list", <<"'fields' must be an array">>>> >>
FieldRules(fld) ==
  << <<~fld.isDict, "must be a dictionary">>,
     <<fld.isDict /\ fld.id = Absent, "missing 'id'">>,
     <<fld.isDict /\ fld.type = Absent, "missing 'type'">>,
     <<fld.isDict /\ fld.label = Absent, "missing 'label'">> >>

\* The first rule of a list that fails (0: none does).
FirstFailing(rules) ==
  IF \E k \in DOMAIN rules : rules[k][1]
  THEN CHOOSE k \in DOMAIN rules : rules[k][1] /\ \A j \in 1..(k - 1) : ~rules[j][1]
  ELSE 0

\* The reference check: the first failing form rule, else the first failing
\* rule of the first field that fails one.
ReferenceCheck(f) ==
  LET top == FirstFailing(FormRules(f))
      bad == {i \in 1..Len(f.fields) : FirstFailing(FieldRules(f.fields[i])) /= 0}
  IN IF top /= 0 THEN [ok |-> FALSE, error |-> FormRules(f)[top][2]]
     ELSE IF bad = {} THEN [ok |-> TRUE, error |-> <<>>]
     ELSE LET i == CHOOSE i \in bad : \A j \in bad : i <= j
              k == FirstFailing(FieldRules(f.fields[i]))
          IN [ok |-> FALSE, error |-> <<"Field", i - 1, FieldRules(f.fields[i])[k][2]>>]

\* C17: validate_form_schema returns what the reference check returns, is
\* (True, None) exactly when no rule fails, and leaves its argument as it is.
C17_ValidatorIsReference ==
  [][(~ret.called /\ ret'.called) =>
       /\ ret'.val = ReferenceCheck(arg)
       /\ ret'.val.ok <=> ValidSchema(arg)
       /\ ret'.val.ok <=> ret'.val.error = <<>>
       /\ arg' = arg]_vars

\* C17 (witness): the validator was given a form whose first field passes
\* and whose second field lacks both 'id' and 'type', and named 'id' at
\* index 1.
C17_Witness ==
  /\ ret.called
  /\ arg.isDict /\ arg.title /= Absent /\ arg.fieldsKind = "list" /\ Len(arg.fields) = 2
  /\ arg.fields[2].isDict /\ arg.fields[2].id = Absent /\ arg.fields[2].type = Absent
  /\ ret.val = [ok |-> FALSE, error |-> <<"Field", 1, "missing 'id'">>]

\* C16 (as claimed): parse_llm_response never raises and returns a result
\* whose mode is question, form_schema or error.
C16_ParseNeverRaises ==
  ret.called =>
    /\ ret.val.raised = "none"
    /\ ret.val.doc.mode \in {"question", "form_schema", "error"}

\* A document that is a question with id, label and type, and with a
\* non-empty list of options when its type is radio or checkbox.
ValidQuestionDoc(doc) ==
  /\ doc.shape = "dict" /\ doc.mode = "question" /\ ~IsNone(doc.question)
  /\ LET q == The(doc.question) IN
     /\ q.id /= Absent /\ q.label /= Absent /\ q.type /= Absent
     /\ q.type \in {"radio", "checkbox"} => q.options = "list"

CurrentName(mode) ==
  IF mode = "questions" THEN "question"
  ELSE IF mode = "final_form" THEN "form_schema"
  ELSE mode

\* C20 (as claimed): a decoded input with a legacy mode name gets the
\* outcome of the same input under the current name.
C20_LegacyAsCurrent ==
  (ret.called /\ arg.text = "json" /\ arg.doc.mode \in {"questions", "final_form"}) =>
    ret.val = parse_llm_response([arg EXCEPT !.doc.mode = CurrentName(@)])

\* The fields of a text's form whose closing brace lies in the first n tokens.
CompleteFields(a) ==
  LET closed == CountChar(Take(FormText(a.mode, a.form), a.n), "}")
  IN SubSeq(a.form.fields, 1, IF closed < Len(a.form.fields) THEN closed ELSE Len(a.form.fields))

\* C18: parse_llm_response on any cut of a well-formed form_schema text
\* returns a form_schema result whose fields include every field of the text
\* that is closed before the cut.
C18_TruncationRecoversFields ==
  (ret.called /\ arg.mode = "form_schema") =>
    /\ ret.val.raised = "none"
    /\ ret.val.doc.mode = "form_schema"
    /\ ~IsNone(ret.val.doc.form)
    /\ \A k \in 1..Len(CompleteFields(arg)) :
         \E j \in 1..Len(The(ret.val.doc.form).fields) :
           The(ret.val.doc.form).fields[j] = CompleteFields(arg)[k]

\* The step in which handler r, back from the LLM, applies a question to
\* its session: it responds with the question, or the session's question or
\* question count is another one after the step.
QuestionApplied(r) ==
  /\ req[r].pc = "llm" /\ req'[r].pc = "done" /\ last'.r = r
  /\ req[r].obj \in DOMAIN heap'
  /\ \/ last'.mode = "question"
     \/ heap'[req[r].obj].current_question /= heap[req[r].obj].current_question
     \/ heap'[req[r].obj].question_count /= heap[req[r].obj].question_count

KnownModes == {"question", "form_schema", "questions", "final_form"}

\* C22 (as claimed): on a text that decodes to an object whose mode is
\* missing or is none of the known names, parse_llm_response does not
\* return the decoded object.
C22_UnknownModeNotReturned ==
  (ret.called /\ arg.text = "json" /\ arg.doc.shape = "dict" /\ arg.doc.mode \notin KnownModes) =>
    ret.val /= Returned(arg.doc)

\* The closers a text lacks: the openers of a kind less its closers, none
\* when the closers are not fewer.
Lacking(t, opener, closer) ==
  IF CountChar(t, opener) > CountChar(t, closer)
  THEN CountChar(t, opener) - CountChar(t, closer) ELSE 0

\* The repair as described: a balanced text as it is; else the text without
\* its trailing blanks and one trailing comma, with an odd number of quotes
\* mended (cut back to just after the last '",', or else a '"' appended),
\* and then the lacking ']' followed by the lacking '}' of the original text.
\* atStart: a '",' that starts the text counts as one to cut back to.
RepairAsWorded(t, atStart) ==
  LET trimmed == Rstrip(t)
      dropped == IF Len(trimmed) > 0 /\ trimmed[Len(trimmed)] = Comma
                 THEN Take(trimmed, Len(trimmed) - 1) ELSE trimmed
      found == LastQuoteComma(dropped)
      mended == IF ~OddQuotes(dropped) THEN dropped
                ELSE IF found > 1 \/ (found = 1 /\ (atStart \/ dropped[1] /= Quote))
                THEN Take(dropped, found + 1)
                ELSE CloseString(dropped)
  IN IF Lacking(t, "{", "}") = 0 /\ Lacking(t, "}", "{") = 0
        /\ Lacking(t, "[", "]") = 0 /\ Lacking(t, "]", "[") = 0
     THEN t
     ELSE mended \o Repeat(RBracket, Lacking(t, "[", "]")) \o Repeat(RBrace, Lacking(t, "{", "}"))

\* C23 (as claimed): repair_truncated_json returns the repair as described,
\* cutting back to the last '",' wherever the text has one.
C23_RepairAsDescribed ==
  ret.called => ret.val = RepairAsWorded(arg, TRUE)

\* C23 (amended): repair_truncated_json returns the repair as described,
\* where the '",' it cuts back to is the last one that does not start the
\* text; a text whose only '",' is its first two characters gets the '"'
\* appended.
C23_RepairCutsAfterStart ==
  ret.called => ret.val = RepairAsWorded(arg, FALSE)

\* C23 (witness): the repair cut a text that ends inside a string back to
\* the comma before it and appended one ']' and three '}'.
C23_Witness ==
  /\ ret.called
  /\ Len(arg) > 0 /\ arg[Len(arg)].k = "open"
  /\ \E n \in 1..(Len(arg) - 1) :
       /\ arg[n] = Comma
       /\ ret.val = Take(arg, n) \o <<RBracket, RBrace, RBrace, RBrace>>

\* C24 (as claimed): a result of mode question or form_schema returned for a
\* text that decoded after the repair passes the checks of the first stage:
\* the question has id, label, type and, for radio or checkbox, a non-empty
\* list of options; the form_schema has a form.
C24_RepairedIsValidated ==
  (/\ ret.called /\ arg.text = "repaired" /\ ret.val.raised = "none"
   /\ ret.val.doc.mode \in {"question", "form_schema"}) =>
    /\ ret.val.doc.mode = "question" => ValidQuestionDoc(ret.val.doc)
    /\ ret.val.doc.mode = "form_schema" =>
         (~IsNone(ret.val.doc.form) /\ FTruthy(The(ret.val.doc.form)))

\* Neither the text nor its repair decodes.
Undecodable(t) == ~json_loads(t).ok /\ ~json_loads(repair_truncated_json(t)).ok

\* C25 (as claimed): on a text that neither decodes nor decodes after the
\* repair, parse_llm_response returns a form_schema with the fields the
\* field pattern matches when it matches at least one, and an error result
\* exactly when it matches none.
C25_ExtractionDecides ==
  (ret.called /\ Undecodable(TextOf(arg))) =>
    /\ ret.val.raised = "none"
    /\ IF Len(MatchedFields(TextOf(arg), 1)) > 0
       THEN /\ ret.val.doc.mode = "form_schema"
            /\ ~IsNone(ret.val.doc.form)
            /\ The(ret.val.doc.form).fields = MatchedFields(TextOf(arg), 1)
       ELSE ret.val.doc.mode = "error"

\* C26 (as claimed): get_session_count is the number of session ids for
\* which get_session returns a session.
C26_CountIsActive ==
  get_session_count = Cardinality({id \in SessionIds : get_session(id) /= 0})

\* The step in which an init request calls create_session with the id.
CreatesSession(id) ==
  \E r \in Requests :
    /\ req[r].pc = "idle" /\ req'[r].pc = "llm" /\ req'[r].kind = "init"
    /\ sessions'[id] = req'[r].obj

\* C27 (as claimed): an id without entry in the store (never created,
\* deleted, or evicted when found expired) gets an entry again only by
\* create_session; until then get_session returns None for it and
\* get_session_count does not count it.
C27_RemovedStaysRemoved ==
  [][\A id \in SessionIds :
       (sessions[id] = 0 /\ sessions'[id] /= 0) => CreatesSession(id)]_vars

\* The user whose request handler r takes the step (NoUser: a request
\* without login, or one refused before its user is looked at).
StepUser(r) ==
  IF req[r].pc /= "idle" THEN req[r].user
  ELSE IF req'[r].pc = "llm" THEN req'[r].user
  ELSE last'.user

\* C28 (as claimed): a step of a request of a logged-in user leaves every
\* stored, unexpired session of another user in the store under its id and
\* as it was.
C28_OtherUsersSessionKept ==
  [][\A r \in Requests :
       (req'[r] /= req[r] /\ StepUser(r) \in Users) =>
         \A id \in SessionIds :
           (IF get_session(id) = 0 THEN FALSE
            ELSE heap[sessions[id]].user_id \in Users \ {StepUser(r)}) =>
             /\ sessions'[id] = sessions[id]
             /\ heap'[sessions[id]] = heap[sessions[id]]]_vars

\* C29 (as claimed): submit_answer stores an answer only under the id of
\* the session's current question, so that every key of answers is the id
\* of a question that was asked in the session.
C29_AnswersOfAskedQuestions ==
  [][\A r \in Requests :
       (req[r].pc = "idle" /\ req'[r].pc = "llm" /\ req'[r].kind = "answer") =>
         LET o == req'[r].obj IN
         /\ heap[o].current_question /= None
         /\ req'[r].question_id = Some(The(heap[o].current_question).id)
         /\ \A q \in QuestionIds :
              heap'[o].answers[q] /= heap[o].answers[q] =>
                q = The(heap[o].current_question).id]_vars

\* A history that is empty, or one system entry followed by user and
\* assistant entries in turn, ending with an assistant entry.
Alternating(h) ==
  \/ Len(h) = 0
  \/ /\ h[1].role = "system"
     /\ Len(h) % 2 = 1
     /\ \A i \in 2..Len(h) : h[i].role = IF i % 2 = 0 THEN "user" ELSE "assistant"

\* C30: the conversation history of every session, stored or held by a
\* handler, is empty or a system entry followed by (user, assistant) pairs.
C30_HistoryAlternates ==
  \A o \in DOMAIN heap : Alternating(heap[o].conversation_history)

\* C30 (witness): of two answers in flight on a stored session one has
\* added its pair to the history and the other still waits on the LLM.
C30_Witness ==
  \E o \in Stored, r \in Requests :
    /\ req[r].pc = "llm" /\ req[r].kind = "answer" /\ req[r].obj = o
    /\ Len(heap[o].conversation_history) = 5
    /\ heap[o].conversation_history[4].role = "user"
    /\ heap[o].conversation_history[5].role = "assistant"
====
